---- MODULE Spec2Model ----
(***************************************************************************)
(* State-machine model of pwrsuite.py: a Streamlit script over the SQLite  *)
(* file employee_management.db.  Every user interaction re-executes the    *)
(* whole script; the database file and st.session_state are the only state *)
(* carried from one run to the next.                                       *)
(***************************************************************************)
EXTENDS Integers, Sequences, FiniteSets, TLC

VARIABLES
  db,             \* employee_management.db: [tables, users, employees, projects, timesheets]
  session_state,  \* st.session_state: a function from key to value
  page,           \* what the last script run rendered: "none", "login" or "dashboard"
  tabs,           \* the tab labels the last run created with st.tabs
  messages,       \* the st.success / st.error texts of the last run
  last            \* the last step: [op, args, result, error]; op is the label of the
                  \* submitted form or clicked button of a script run ("load", "none"
                  \* for a run without one), or the name of a function called,
                  \* "start" before the first run

vars == <<db, session_state, page, tabs, messages, last>>

---------------------------------------------------------------------------
(* Bounds of the model *)

\* Highest row identifier a table of the stored database holds
MaxRows == 2

Usernames == {"admin", "bob"}
Passwords == {"admin123", "pw"}
Roles == {"admin", "employee"}
EmployeeNames == {"ann", "raj"}
ProjectNames == {"dam", "road"}
Dates == {"d1"}

---------------------------------------------------------------------------
(* Python and SQL values *)

None == "None"
NULL == 0
NoError == ""

Max(S) == CHOOSE x \in S : \A y \in S : y <= x
Min(S) == CHOOSE x \in S : \A y \in S : x <= y

\* The one element of a singleton set. The({F(x) : x \in {e}}) is F(e) with e
\* evaluated once.
The(S) == CHOOSE x \in S : TRUE

\* Position of column c in the column list cols of a statement
IndexOf(cols, c) == CHOOSE i \in 1..Len(cols) : cols[i] = c

\* What a data-access call hands back: the store after it, the value returned
\* (a set of rows or values; {} for None) and the exception raised, if any
Return(d, res, err) == [db |-> d, result |-> res, error |-> err]

---------------------------------------------------------------------------
(* Schema: the CREATE TABLE IF NOT EXISTS statements *)

AllTables == {"employees", "projects", "timesheets", "users"}

EmployeesColumns == {"employee_id", "employee_name", "employee_type", "rate"}

ProjectsColumns == {"project_id", "project_name", "project_location", "start_date", "end_date"}

TimesheetsColumns == {"id", "employee_id", "project_id", "date", "present_flag",
                      "overtime_hours", "comments"}

UsersColumns == {"id", "username", "password", "role"}

\* INTEGER PRIMARY KEY AUTOINCREMENT: one more than the largest identifier used.
\* No statement of the script deletes from a table it inserts into, so the
\* largest identifier ever used is the largest one stored.
NextId(rows, pk) == IF rows = {} THEN 1 ELSE Max({r[pk] : r \in rows}) + 1

\* CREATE TABLE IF NOT EXISTS, four times: a missing table is created empty,
\* an existing one is left as it is
CreateTables(d) == [d EXCEPT !.tables = @ \cup AllTables]

\* INSERT OR REPLACE: a stored row of that username gives way to the seed row
SeedAdminReplace(d) ==
  [d EXCEPT !.users = {r \in @ : r.username # "admin"} \cup
                      {[id |-> NextId(d.users, "id"), username |-> "admin",
                        password |-> "admin123", role |-> "admin"]}]

\* INSERT OR IGNORE INTO users ... ('admin', 'admin123', 'admin'): username is
\* UNIQUE, so the row is dropped when a row with that username is stored
SeedAdmin(d) ==
  IF \E r \in d.users : r.username = "admin"
  THEN d
  ELSE [d EXCEPT !.users = @ \cup {[id |-> NextId(d.users, "id"), username |-> "admin",
                                    password |-> "admin123", role |-> "admin"]}]

\* The module-level statements every script run starts with
Startup(d) == SeedAdmin(CreateTables(d))

---------------------------------------------------------------------------
(* SQL statements, as SQLite executes them *)

\* INSERT INTO t (cols) VALUES (?, ..., ?) with nmarks question marks, bound to params
SqlInsert(rows, tcols, pk, cols, nmarks, params) ==
  IF \E i \in 1..Len(cols) : cols[i] \notin tcols
  THEN [rows |-> rows, error |-> "OperationalError"]     \* table has no column named ...
  ELSE IF nmarks # Len(cols)
  THEN [rows |-> rows, error |-> "OperationalError"]     \* N values for M columns
  ELSE IF Len(params) # nmarks
  THEN [rows |-> rows, error |-> "ProgrammingError"]     \* incorrect number of bindings
  ELSE [rows |-> rows \cup {[c \in tcols |->
                               IF c = pk THEN NextId(rows, pk)
                               ELSE IF \E i \in 1..Len(cols) : cols[i] = c
                                    THEN params[IndexOf(cols, c)]
                                    ELSE NULL]},
        error |-> NoError]

\* UPDATE t SET cols[1] = ?, ... WHERE wherecol = ?, bound to params in order
SqlUpdate(rows, tcols, cols, wherecol, params) ==
  IF wherecol \notin tcols \/ \E i \in 1..Len(cols) : cols[i] \notin tcols
  THEN [rows |-> rows, error |-> "OperationalError"]     \* no such column
  ELSE IF Len(params) # Len(cols) + 1
  THEN [rows |-> rows, error |-> "ProgrammingError"]
  ELSE [rows |-> {IF r[wherecol] = params[Len(params)]
                  THEN [c \in tcols |-> IF \E i \in 1..Len(cols) : cols[i] = c
                                        THEN params[IndexOf(cols, c)]
                                        ELSE r[c]]
                  ELSE r : r \in rows},
        error |-> NoError]

\* DELETE FROM t WHERE wherecol = ?. The connection never turns foreign-key
\* enforcement on, so rows that refer to a deleted row stay as they are.
SqlDelete(rows, tcols, wherecol, param) ==
  IF wherecol \notin tcols
  THEN [rows |-> rows, error |-> "OperationalError"]
  ELSE [rows |-> {r \in rows : r[wherecol] # param}, error |-> NoError]

\* cursor.fetchone(): the first row of a result, or None. A table scan of a
\* rowid table visits the rows by ascending INTEGER PRIMARY KEY.
fetchone(rows, pk) == IF rows = {} THEN {} ELSE {CHOOSE r \in rows : r[pk] = Min({x[pk] : x \in rows})}

---------------------------------------------------------------------------
(* Utility functions *)

\* hash_password: SHA-256 hex digest, never equal to the text it digests
hash_password(password) == "sha256:" \o password

\* The credential check with the digest compared
authenticate_user_hashed(d, username, password) ==
  LET hashed_password == hash_password(password)
  IN  Return(d, fetchone({r \in d.users : r.username = username /\ r.password = hashed_password}, "id"),
             NoError)

\* authenticate_user: the hash is computed and not used; the query compares
\* the submitted password itself
authenticate_user(d, username, password) ==
  LET hashed_password == hash_password(password)
  IN  Return(d, fetchone({r \in d.users : r.username = username /\ r.password = password}, "id"),
             NoError)

---------------------------------------------------------------------------
(* Data-access functions. args is the tuple of positional arguments of the  *)
(* call; a call with another number of arguments than the def takes raises  *)
(* TypeError before the body runs.                                          *)

add_employee(d, args) ==
  IF Len(args) # 4 THEN Return(d, {}, "TypeError")
  ELSE The({Return([d EXCEPT !.employees = e.rows], {}, e.error) :
              e \in {SqlInsert(d.employees, EmployeesColumns, "employee_id",
                               <<"employee_name", "employee_type", "rate", "project_id">>,
                               4, args)}})

update_employee(d, args) ==
  IF Len(args) # 5 THEN Return(d, {}, "TypeError")
  ELSE The({Return([d EXCEPT !.employees = e.rows], {}, e.error) :
              e \in {SqlUpdate(d.employees, EmployeesColumns,
                               <<"employee_name", "employee_type", "rate", "project_id">>,
                               "employee_id", args)}})

\* DELETE FROM employees, without the WHERE clause
delete_employee_all(d, args) ==
  IF Len(args) # 1 THEN Return(d, {}, "TypeError")
  ELSE Return([d EXCEPT !.employees = {}], {}, NoError)

delete_employee(d, args) ==
  IF Len(args) # 1 THEN Return(d, {}, "TypeError")
  ELSE The({Return([d EXCEPT !.employees = e.rows], {}, e.error) :
              e \in {SqlDelete(d.employees, EmployeesColumns, "employee_id", args[1])}})

add_project(d, args) ==
  IF Len(args) # 4 THEN Return(d, {}, "TypeError")
  ELSE The({Return([d EXCEPT !.projects = e.rows], {}, e.error) :
              e \in {SqlInsert(d.projects, ProjectsColumns, "project_id",
                               <<"project_name", "project_location", "start_date", "end_date">>,
                               4, args)}})

\* SELECT * FROM employees
fetch_employees(d) == Return(d, d.employees, NoError)

\* SELECT * FROM projects
fetch_projects(d) == Return(d, d.projects, NoError)

\* fetch_projects_ids: fetchone() reads the first row only, and set(result)
\* holds that row's single column. dberror is sqlite3.Error raised by the
\* query; it is caught and an empty set returned.
fetch_projects_ids(d, dberror) ==
  IF dberror THEN Return(d, {}, NoError)
  ELSE Return(d, {r.project_id : r \in fetchone(d.projects, "project_id")}, NoError)

\* Six columns, five question marks, six bindings
add_timesheet(d, args) ==
  IF Len(args) # 6 THEN Return(d, {}, "TypeError")
  ELSE The({Return([d EXCEPT !.timesheets = e.rows], {}, e.error) :
              e \in {SqlInsert(d.timesheets, TimesheetsColumns, "id",
                               <<"employee_id", "project_id", "date", "present_flag",
                                 "overtime_hours", "comments">>, 5, args)}})

\* fetch_timesheets: the columns the SELECT names, per table alias
FetchTimesheetsColumns ==
  [t |-> {"id", "date", "hours_worked", "description", "employee_id", "project_id"},
   e |-> {"employee_name", "id"},
   p |-> {"project_name", "id"}]

\* timesheets JOIN employees JOIN projects; pandas raises DatabaseError when
\* SQLite rejects the statement (no such column)
fetch_timesheets(d) ==
  IF /\ FetchTimesheetsColumns.t \subseteq TimesheetsColumns
     /\ FetchTimesheetsColumns.e \subseteq EmployeesColumns
     /\ FetchTimesheetsColumns.p \subseteq ProjectsColumns
  THEN Return(d, {[id |-> t.id, employee |-> e.employee_name, project |-> p.project_name,
                   date |-> t.date, hours_worked |-> t.hours_worked,
                   description |-> t.description] :
                  <<t, e, p>> \in {x \in d.timesheets \X d.employees \X d.projects :
                                     x[1].employee_id = x[2].id /\ x[1].project_id = x[3].id}},
              NoError)
  ELSE Return(d, {}, "DatabaseError")

---------------------------------------------------------------------------
(* The Streamlit script. An event is the interaction that triggered the    *)
(* run: [kind, args, emp_menu, dberror]. kind is the label of the submitted *)
(* form or clicked button, "load" for a session's first run and "none" for  *)
(* a run without a submission; args are the values of the form's widgets;   *)
(* emp_menu is the option of the employee action selector; dberror is       *)
(* whether the project-id query raises sqlite3.Error.                       *)

EmptySession == [k \in {} |-> None]

LoggedOut == [logged_in |-> FALSE, username |-> None]

\* The initialisation without its guard
InitSessionStateAlways(s) == LoggedOut

\* if "logged_in" not in st.session_state: ...
InitSessionState(s) == IF "logged_in" \notin DOMAIN s THEN LoggedOut ELSE s

TabLabels == <<"Home", "Manage Employees", "Manage Projects", "Timesheet", "Generate Reports">>

\* What one execution of the script leaves: the store, the session, what was
\* rendered, the value the handler's call returned, the uncaught exception
\* that ended the run (if any) and whether st.rerun() was called
Outcome(d, s, pg, tb, msgs, res, err, rr) ==
  [db |-> d, session |-> s, page |-> pg, tabs |-> tb, messages |-> msgs,
   result |-> res, error |-> err, rerun |-> rr]

\* What one tab leaves: the store, the messages and the exception raised
Tab(d, msgs, err) == [db |-> d, messages |-> msgs, error |-> err]

\* login(): the form, and on submission the credential check
login(d, s, ev) ==
  IF ev.kind = "Login"
  THEN The({IF user.result # {}
            THEN Outcome(d, [s EXCEPT !.logged_in = TRUE, !.username = ev.args[1]], "login", <<>>,
                         <<"Login successful!">>, user.result, NoError, TRUE)
            ELSE Outcome(d, s, "login", <<>>, <<"Invalid username or password.">>,
                         user.result, NoError, FALSE) :
            user \in {authenticate_user(d, ev.args[1], ev.args[2])}})
  ELSE Outcome(d, s, "login", <<>>, <<>>, {}, NoError, FALSE)

\* The options of the "Project Id" selectbox of the add-employee form; a
\* selectbox without options yields None
ProjectIdOptions(d, dberror) ==
  LET ids == fetch_projects_ids(d, dberror).result
  IN  IF ids = {} THEN {NULL} ELSE ids

\* The options of a selectbox over employees["employee_id"]
EmployeeIdOptions(d) ==
  LET ids == {r.employee_id : r \in fetch_employees(d).result}
  IN  IF ids = {} THEN {NULL} ELSE ids

\* with tabs[1]: Manage Employees
EmployeesTab(d, ev) ==
  CASE ev.emp_menu = "Add" ->
         IF ev.kind = "Add Employee"
         THEN The({Tab(r.db, IF r.error = NoError THEN <<"Employee added successfully!">> ELSE <<>>,
                       r.error) : r \in {add_employee(d, ev.args)}})
         ELSE Tab(d, <<>>, NoError)
    [] ev.emp_menu = "Update" ->
         \* employees.loc[..., "name"], "role", "department": columns of the frame
         IF ~({"name", "role", "department"} \subseteq EmployeesColumns)
         THEN Tab(d, <<>>, "KeyError")
         ELSE IF ev.kind = "Update Employee"
         THEN The({Tab(r.db, IF r.error = NoError THEN <<"Employee updated successfully!">> ELSE <<>>,
                       r.error) : r \in {update_employee(d, ev.args)}})
         ELSE Tab(d, <<>>, NoError)
    [] ev.emp_menu = "Delete" ->
         IF ev.kind = "Delete Employee"
         THEN The({Tab(r.db, IF r.error = NoError THEN <<"Employee deleted successfully!">> ELSE <<>>,
                       r.error) : r \in {delete_employee(d, ev.args)}})
         ELSE Tab(d, <<>>, NoError)
    [] OTHER -> Tab(d, <<>>, NoError)

\* with tabs[2]: Manage Projects; the form calls add_project with three arguments
ProjectsTab(d, ev) ==
  IF ev.kind = "Add Project"
  THEN The({Tab(r.db, IF r.error = NoError THEN <<"Project added successfully!">> ELSE <<>>,
                r.error) : r \in {add_project(d, ev.args)}})
  ELSE Tab(d, <<>>, NoError)

\* with tabs[3]: Timesheet; the form calls add_timesheet with five arguments,
\* and the records below the form are fetched on every run
TimesheetTab(d, ev) ==
  The({IF r.error # NoError THEN Tab(r.db, <<>>, r.error)
       ELSE Tab(r.db,
                IF ev.kind = "Submit Timesheet"
                THEN <<"Timesheet entry added successfully!">> ELSE <<>>,
                fetch_timesheets(r.db).error) :
       r \in {IF ev.kind = "Submit Timesheet" THEN add_timesheet(d, ev.args)
              ELSE Return(d, {}, NoError)}})

\* A Logout that clears the username alone
ClearUsername(s) == [s EXCEPT !.username = None]

\* The Logout button's two assignments
ClearSession(s) == [s EXCEPT !.logged_in = FALSE, !.username = None]

\* main_dashboard(): Logout, then the five tabs in order; an exception ends
\* the run. The Home tab shows an image and changes nothing; the Reports tab
\* comes after the timesheet records.
main_dashboard(d, s, ev) ==
  IF ev.kind = "Logout"
  THEN Outcome(d, ClearSession(s), "dashboard", <<>>, <<>>, {}, NoError, TRUE)
  ELSE The({
    IF t1.error # NoError
    THEN Outcome(t1.db, s, "dashboard", TabLabels, t1.messages, {}, t1.error, FALSE)
    ELSE The({
      IF t2.error # NoError
      THEN Outcome(t2.db, s, "dashboard", TabLabels, t1.messages \o t2.messages, {},
                   t2.error, FALSE)
      ELSE The({Outcome(t3.db, s, "dashboard", TabLabels,
                        t1.messages \o t2.messages \o t3.messages, {}, t3.error, FALSE) :
                t3 \in {TimesheetTab(t2.db, ev)}}) :
      t2 \in {ProjectsTab(t1.db, ev)}}) :
    t1 \in {EmployeesTab(d, ev)}})

\* One execution of the script, top to bottom
Execute(d0, s0, ev) ==
  The({IF ~s.logged_in THEN login(d, s, ev) ELSE main_dashboard(d, s, ev) :
       d \in {Startup(d0)}, s \in {InitSessionState(s0)}})

NoEvent == [kind |-> "none", args |-> <<>>, emp_menu |-> "Add", dberror |-> FALSE]

\* A script run: st.rerun() ends the execution and starts the script again
\* with the session as left, and no form submitted
Script(d0, s0, ev) ==
  The({IF first.rerun
       THEN [Execute(first.db, first.session, NoEvent) EXCEPT !.result = first.result]
       ELSE first : first \in {Execute(d0, s0, ev)}})

---------------------------------------------------------------------------
(* The database file the script opens. sqlite3.connect opens the file left *)
(* by earlier processes, or creates it: the stores below are a new file and *)
(* files whose tables hold rows of the declared columns, usernames UNIQUE.  *)

EmployeeTypes == {"Mason"}
Rates == {10}
Locations == {"pune"}

UserId(u) == IF u = "admin" THEN 1 ELSE 2

UsersTables ==
  {{[id |-> UserId(u), username |-> u, password |-> f[u][1], role |-> f[u][2]] : u \in D} :
     <<D, f>> \in {x \in (SUBSET Usernames) \X [Usernames -> Passwords \X Roles] : TRUE}}

EmployeeRow(i) ==
  [employee_id |-> i, employee_name |-> IF i % 2 = 1 THEN "ann" ELSE "raj",
   employee_type |-> "Mason", rate |-> 10]

ProjectRow(i) ==
  [project_id |-> i, project_name |-> IF i % 2 = 1 THEN "dam" ELSE "road",
   project_location |-> "pune", start_date |-> "d1", end_date |-> "d1"]

TimesheetRow(i) ==
  [id |-> i, employee_id |-> i, project_id |-> i, date |-> "d1", present_flag |-> TRUE,
   overtime_hours |-> 0, comments |-> "none"]

NewFile == [tables |-> {}, users |-> {}, employees |-> {}, projects |-> {}, timesheets |-> {}]

\* Files that differ in their users table
UserStores ==
  {[tables |-> AllTables, users |-> u, employees |-> {EmployeeRow(i) : i \in 1..MaxRows},
    projects |-> {ProjectRow(i) : i \in 1..MaxRows},
    timesheets |-> {TimesheetRow(i) : i \in 1..MaxRows}] : u \in UsersTables}

\* Files that differ in their employees and projects tables, so that a
\* timesheet may name an employee or a project that is not stored
RowStores ==
  {[tables |-> AllTables,
    users |-> {[id |-> 1, username |-> "admin", password |-> "admin123", role |-> "admin"]},
    employees |-> {EmployeeRow(i) : i \in E}, projects |-> {ProjectRow(i) : i \in P},
    timesheets |-> {TimesheetRow(i) : i \in 1..MaxRows}] :
     <<E, P>> \in (SUBSET (1..MaxRows)) \X (SUBSET (1..MaxRows))}

\* Before the first run no step has been taken
NoCall == [op |-> "start", args |-> <<>>, result |-> {}, error |-> NoError]

InitWith(stores) ==
  /\ db \in stores
  /\ session_state = EmptySession
  /\ page = "none"
  /\ tabs = <<>>
  /\ messages = <<>>
  /\ last = NoCall

Init == InitWith({NewFile} \cup UserStores)

InitRows == InitWith({NewFile} \cup RowStores)

---------------------------------------------------------------------------
(* Actions: one per interaction, each a whole script run *)

EmpMenu == {"Add", "Update", "Delete", "View All"}

\* The state a script run triggered by event ev leaves
Run(s0, ev) ==
  \E out \in {Script(db, s0, ev)} :
      /\ db' = out.db
      /\ session_state' = out.session
      /\ page' = out.page
      /\ tabs' = out.tabs
      /\ messages' = out.messages
      /\ last' = [op |-> ev.kind, args |-> ev.args, result |-> out.result, error |-> out.error]

Event(kind, args, emp_menu, dberror) ==
  [kind |-> kind, args |-> args, emp_menu |-> emp_menu, dberror |-> dberror]

\* A browser opens the application: a new session, and the script's first run
Load == \E s0 \in {EmptySession} : Run(s0, Event("load", <<>>, "Add", FALSE))

\* A widget changed without a form submitted or a button clicked; on the
\* dashboard the employee action selector holds any of its four options
Rerun ==
  /\ page # "none"
  /\ \E m \in EmpMenu, dberror \in BOOLEAN : Run(session_state, Event("none", <<>>, m, dberror))

\* The login form submitted
LoginSubmit ==
  /\ page = "login"
  /\ \E username \in Usernames, password \in Passwords :
       Run(session_state, Event("Login", <<username, password>>, "Add", FALSE))

\* The sidebar's Logout button clicked
Logout ==
  /\ page = "dashboard"
  /\ Run(session_state, Event("Logout", <<>>, "Add", FALSE))

\* The add-employee form submitted
AddEmployeeSubmit ==
  /\ page = "dashboard"
  /\ \E name \in EmployeeNames, type \in EmployeeTypes, rate \in Rates, dberror \in BOOLEAN :
       \E project_id \in ProjectIdOptions(db, dberror) :
         Run(session_state, Event("Add Employee", <<name, type, rate, project_id>>, "Add", dberror))

\* The Delete Employee button clicked
DeleteEmployeeClick ==
  /\ page = "dashboard"
  /\ \E emp_id \in EmployeeIdOptions(db) :
       Run(session_state, Event("Delete Employee", <<emp_id>>, "Delete", FALSE))

\* The add-project form submitted
AddProjectSubmit ==
  /\ page = "dashboard"
  /\ \E m \in EmpMenu, project_name \in ProjectNames, deadline \in Dates :
       \E assigned_to \in EmployeeIdOptions(db) :
         Run(session_state, Event("Add Project", <<project_name, assigned_to, deadline>>, m, FALSE))

\* The timesheet form submitted
TimesheetSubmit ==
  /\ page = "dashboard"
  /\ \E m \in EmpMenu, date \in Dates :
       \E employee_id \in EmployeeIdOptions(db),
          project_id \in {r.project_id : r \in fetch_projects(db).result} \cup
                         (IF db.projects = {} THEN {NULL} ELSE {}) :
         Run(session_state, Event("Submit Timesheet", <<employee_id, project_id, date, 0, "none">>, m, FALSE))

---------------------------------------------------------------------------
(* Actions: a data-access function called with the arguments its def takes *)

\* The state a call of a data-access function leaves
Call(op, args, r) ==
  /\ page # "none"
  /\ db' = r.db
  /\ last' = [op |-> op, args |-> args, result |-> r.result, error |-> r.error]
  /\ UNCHANGED <<session_state, page, tabs, messages>>

CallAddEmployee ==
  \E employee_name \in EmployeeNames, employee_type \in EmployeeTypes, rate \in Rates,
     project_id \in ProjectIdOptions(db, FALSE) :
    \E args \in {<<employee_name, employee_type, rate, project_id>>} :
      \E r \in {add_employee(db, args)} : Call("add_employee", args, r)

CallDeleteEmployee ==
  \E employee_id \in 1..MaxRows :
    \E r \in {delete_employee(db, <<employee_id>>)} : Call("delete_employee", <<employee_id>>, r)

CallUpdateEmployee ==
  \E employee_id \in 1..MaxRows, employee_name \in EmployeeNames, employee_type \in EmployeeTypes,
     rate \in Rates, project_id \in ProjectIdOptions(db, FALSE) :
    \E args \in {<<employee_id, employee_name, employee_type, rate, project_id>>} :
      \E r \in {update_employee(db, args)} : Call("update_employee", args, r)

CallAddProject ==
  /\ Cardinality(db.projects) < MaxRows
  /\ \E project_name \in ProjectNames, project_location \in Locations,
        start_date \in Dates, end_date \in Dates :
       \E args \in {<<project_name, project_location, start_date, end_date>>} :
         \E r \in {add_project(db, args)} : Call("add_project", args, r)

CallAddTimesheet ==
  \E employee_id \in EmployeeIdOptions(db), project_id \in ProjectIdOptions(db, FALSE),
     date \in Dates :
    \E args \in {<<employee_id, project_id, date, TRUE, 0, "none">>} :
      \E r \in {add_timesheet(db, args)} : Call("add_timesheet", args, r)

CallFetchTimesheets == \E r \in {fetch_timesheets(db)} : Call("fetch_timesheets", <<>>, r)

CallFetchProjectsIds ==
  \E dberror \in BOOLEAN :
    \E r \in {fetch_projects_ids(db, dberror)} : Call("fetch_projects_ids", <<dberror>>, r)

Next ==
  \/ Load
  \/ Rerun
  \/ LoginSubmit
  \/ Logout
  \/ AddEmployeeSubmit
  \/ DeleteEmployeeClick
  \/ AddProjectSubmit
  \/ TimesheetSubmit
  \/ CallAddEmployee
  \/ CallUpdateEmployee
  \/ CallDeleteEmployee
  \/ CallAddProject
  \/ CallAddTimesheet
  \/ CallFetchTimesheets
  \/ CallFetchProjectsIds

Spec == Init /\ [][Next]_vars

SpecRows == InitRows /\ [][Next]_vars

---------------------------------------------------------------------------
(* Properties *)

\* The session holds logged_in = True
LoggedIn == "logged_in" \in DOMAIN session_state /\ session_state.logged_in

\* The rows of the users table with the username and the stored password given
Matching(users, username, password) ==
  {r \in users : r.username = username /\ r.password = password}

\* The role stored for the user of the session
SessionRoles == {r.role : r \in {x \in db.users : x.username = session_state.username}}

\* C1: a login submission's credential check returns a row, the stored row of
\* that username and password, exactly when the users table holds a row whose
\* username and stored password both equal the submitted ones (the password
\* compared as submitted, not its digest), and leaves the users table as it was.
C1_AuthenticatePlaintext ==
  [][last'.op = "Login" =>
       /\ last'.result # {} <=> Matching(db.users, last'.args[1], last'.args[2]) # {}
       /\ last'.result \subseteq Matching(db.users, last'.args[1], last'.args[2])
       /\ db'.users = db.users]_vars

\* C1 witness: a user other than the seeded one authenticated with its stored password
C1_Witness ==
  /\ last.op = "Login"
  /\ last.args = <<"bob", "pw">>
  /\ last.result # {}
  /\ LoggedIn

\* C2: the Logout button leaves logged_in False and username None and the
\* login form rendered; and from a state that is not logged in, only a login
\* submission that authenticated leads to a run that renders the dashboard.
C2_LogoutRedirects ==
  /\ [][last'.op = "Logout" =>
          /\ session_state'.logged_in = FALSE
          /\ session_state'.username = None
          /\ page' = "login" /\ tabs' = <<>>]_vars
  /\ [][(~LoggedIn /\ page' = "dashboard") => (last'.op = "Login" /\ last'.result # {})]_vars

\* C2 witness: a logout after a login
C2_Witness ==
  /\ last.op = "Logout"
  /\ page = "login"
  /\ session_state = LoggedOut

\* C3: on the dashboard a user of role "admin" sees the two management tabs,
\* a user of role "employee" sees the timesheet tab and neither management
\* tab, and every user sees the reports tab.
C3_RoleGatedTabs ==
  page = "dashboard" =>
    LET shown == {tabs[i] : i \in 1..Len(tabs)}
    IN  /\ "Generate Reports" \in shown
        /\ "admin" \in SessionRoles => {"Manage Employees", "Manage Projects"} \subseteq shown
        /\ "employee" \in SessionRoles =>
             /\ "Timesheet" \in shown
             /\ {"Manage Employees", "Manage Projects"} \cap shown = {}

\* C4: add_employee, add_project and add_timesheet each leave their table
\* with exactly one new row, holding the submitted values, and every row that
\* was there.
C4_AddInsertsOneRow ==
  [][/\ last'.op = "add_employee" =>
          \E r \in db'.employees \ db.employees :
            /\ db'.employees = db.employees \cup {r}
            /\ <<r.employee_name, r.employee_type, r.rate>>
                 = <<last'.args[1], last'.args[2], last'.args[3]>>
     /\ last'.op = "add_project" =>
          \E r \in db'.projects \ db.projects :
            /\ db'.projects = db.projects \cup {r}
            /\ <<r.project_name, r.project_location, r.start_date, r.end_date>> = last'.args
     /\ last'.op = "add_timesheet" =>
          \E r \in db'.timesheets \ db.timesheets :
            /\ db'.timesheets = db.timesheets \cup {r}
            /\ <<r.employee_id, r.project_id, r.date, r.present_flag, r.overtime_hours,
                 r.comments>> = last'.args]_vars

\* C5: update_employee(employee_id, employee_name, employee_type, rate,
\* project_id) leaves the row of that identifier with the name, type and rate
\* given, and every other row as it was.
C5_UpdateSetsFields ==
  [][last'.op = "update_employee" =>
       db'.employees =
         {IF r.employee_id = last'.args[1]
          THEN [r EXCEPT !.employee_name = last'.args[2], !.employee_type = last'.args[3],
                         !.rate = last'.args[4]]
          ELSE r : r \in db.employees}]_vars

\* C6: delete_employee(employee_id), called or reached by the Delete Employee
\* button, removes the rows of that identifier from the employees table and
\* no other row, raises nothing, and leaves the projects, timesheets and
\* users tables as they were; an identifier not stored leaves the table as it was.
C6_DeleteRemovesOnlyThatRow ==
  [][last'.op \in {"delete_employee", "Delete Employee"} =>
       /\ db'.employees = {r \in db.employees : r.employee_id # last'.args[1]}
       /\ (\A r \in db.employees : r.employee_id # last'.args[1]) => db'.employees = db.employees
       /\ db'.projects = db.projects
       /\ db'.timesheets = db.timesheets
       /\ db'.users = db.users
       /\ last'.op = "delete_employee" => last'.error = NoError
       /\ last'.op = "Delete Employee" => "Employee deleted successfully!" \in
                                            {messages'[i] : i \in 1..Len(messages')}]_vars

\* C6 witness: the Delete Employee button removed the selected employee and
\* another employee is still stored
C6_Witness ==
  /\ last.op = "Delete Employee"
  /\ last.args[1] # NULL
  /\ messages = <<"Employee deleted successfully!">>
  /\ db.employees # {}
  /\ \A r \in db.employees : r.employee_id # last.args[1]
  /\ db.timesheets # {}

\* C7: fetch_timesheets returns one row per stored timesheet, with the name
\* of the employee and of the project whose identifiers the timesheet holds.
C7_FetchTimesheetsJoins ==
  last.op = "fetch_timesheets" =>
    /\ last.error = NoError
    /\ Cardinality(last.result) = Cardinality(db.timesheets)
    /\ \A t \in db.timesheets :
         \E row \in last.result :
           /\ row.id = t.id
           /\ \A e \in db.employees : e.employee_id = t.employee_id => row.employee = e.employee_name
           /\ \A q \in db.projects : q.project_id = t.project_id => row.project = q.project_name

\* C8: the first run of a session leaves it logged out; a run without a
\* submission leaves the session as it was; a login submission sets logged_in
\* and the submitted username exactly when the credential check returned a
\* row, and otherwise leaves the session as it was and shows the one error;
\* logged_in turns True only by such a submission and is True exactly when
\* username is not None.
C8_SessionState ==
  /\ [](page # "none" =>
          /\ DOMAIN session_state = {"logged_in", "username"}
          /\ session_state.logged_in <=> session_state.username # None)
  /\ [][/\ last'.op = "load" => session_state' = LoggedOut
        /\ last'.op = "none" => session_state' = session_state
        /\ last'.op = "Login" =>
             IF last'.result # {}
             THEN session_state' = [logged_in |-> TRUE, username |-> last'.args[1]]
             ELSE /\ session_state' = session_state
                  /\ messages' = <<"Invalid username or password.">>
        /\ (~LoggedIn /\ LoggedIn') => (last'.op = "Login" /\ last'.result # {})]_vars

\* C8 witness: a run without a submission after a login, the session still logged in
C8_Witness ==
  /\ last.op = "none"
  /\ LoggedIn
  /\ session_state.username = "bob"
  /\ page = "dashboard"

\* C9: after any run the four tables exist, usernames are pairwise distinct
\* and one row has username 'admin'; running the startup statements again
\* changes nothing; and no step removes or changes a stored user row, no run
\* without a submission changes another table.
C9_StartupIdempotent ==
  /\ [](page # "none" =>
          /\ db.tables = AllTables
          /\ \A r1, r2 \in db.users : r1.username = r2.username => r1 = r2
          /\ Cardinality({r \in db.users : r.username = "admin"}) = 1
          /\ Startup(db) = db)
  /\ [][/\ db.users \subseteq db'.users
        /\ db.tables \subseteq db'.tables
        /\ last'.op \in {"load", "none"} =>
             /\ db'.employees = db.employees
             /\ db'.projects = db.projects
             /\ db'.timesheets = db.timesheets
             /\ \A r \in db'.users \ db.users :
                  <<r.username, r.password, r.role>> = <<"admin", "admin123", "admin">>]_vars

\* C9 witness: a stored admin row with another password and role than the
\* seed's is still there after a run without a submission
C9_Witness ==
  /\ last.op = "none"
  /\ \E r \in db.users : r.username = "admin" /\ r.password = "pw" /\ r.role = "employee"
  /\ db.employees # {}

\* C10: fetch_projects_ids raises nothing; it returns the empty set when the
\* query raises a database error and the set of the stored project
\* identifiers otherwise, and leaves the store as it was.
C10_FetchProjectsIdsAll ==
  last.op = "fetch_projects_ids" =>
    /\ last.error = NoError
    /\ last.result = IF last.args[1] THEN {} ELSE {r.project_id : r \in db.projects}

====
